---------------------------- MODULE Spec2Model ----------------------------
(***************************************************************************)
(* Model of the MEGA65 image converter scripts IC65_128_2.py and           *)
(* IC65_128_3.py: the per-channel depth reduction to_4bit (computed in     *)
(* IEEE-754 double arithmetic, as Python computes it), the pixel loop of   *)
(* reduce_to_4bit_color, the colour-count parse of the ppmtoilbm            *)
(* diagnostics, the pipeline of run_conversion and the session loop.       *)
(*                                                                         *)
(* The external tools (convert, ppmtoilbm, cc1541, petcat), the file       *)
(* system's answers to os.path.exists and the user's answers to input()    *)
(* are the environment: each is a nondeterministic choice.  The tools are  *)
(* assumed installed and the Pillow library is assumed to open and save    *)
(* the intermediate file (the scripts list both as requirements).          *)
(***************************************************************************)
EXTENDS Integers, Sequences, FiniteSets

(***************************************************************************)
(* Bounds of the model.                                                    *)
(***************************************************************************)
\* Pixels per row and rows of the modelled raster (320x200 in production).
Width == 2
Height == 1
\* Longest diagnostic text (in symbols) ppmtoilbm writes to stderr.
MaxLen == 4
\* Longest answer (in characters) typed at the "run again" prompt.
MaxAnswer == 2

(***************************************************************************)
(* Program constants.                                                      *)
(***************************************************************************)
\* value / 255
MaxChannel == 255
\* ... * 15
MaxNibble == 15
\* ... * 17
LevelStep == 17
\* if color_count >= 128
ColorThreshold == 128
\* Python floats are IEEE-754 doubles: 53 significant bits.
MantBits == 53

(***************************************************************************)
(* IEEE-754 double arithmetic on positive numbers.  A float is             *)
(* [m |-> <<a, b, c>>, e |-> exponent]: the 53-bit significand in three    *)
(* limbs of 17, 18 and 18 bits (TLC's integers are 32 bits wide), its      *)
(* leading bit set, and the value is                                       *)
(* (a * Limb^2 + b * Limb + c) * 2^(e - 52), that is 1.xxx * 2^e.          *)
(* Every operation rounds to nearest, ties to even.                        *)
(***************************************************************************)
LimbBits == (MantBits + 1) \div 3
Limb == 2^LimbBits
\* The top limb of a significand lies in TopOne .. 2 * TopOne - 1.
TopOne == 2^(MantBits - 1 - 2 * LimbBits)

\* <<a, b, c>> divided by 2^s (0 <= s < 8): the quotient and the bits dropped.
ShiftRight(x, s) ==
    LET p  == 2^s
        t1 == (x[1] % p) * Limb + x[2]
        t2 == (t1 % p) * Limb + x[3]
    IN  [q |-> <<x[1] \div p, t1 \div p, t2 \div p>>, rem |-> t2 % p]

\* <<a, b, c>> + 1.
IncLimbs(x) ==
    IF x[3] + 1 < Limb THEN <<x[1], x[2], x[3] + 1>>
    ELSE IF x[2] + 1 < Limb THEN <<x[1], x[2] + 1, 0>>
    ELSE <<x[1] + 1, 0, 0>>

\* Round x, a number of MantBits + s bits whose leading bit has exponent e,
\* to MantBits bits; `sticky` says that nonzero bits follow x.
RoundNearestEven(x, s, e, sticky) ==
    IF s = 0 THEN [m |-> x, e |-> e]
    ELSE LET sh   == ShiftRight(x, s)
             half == 2^(s - 1)
             more == sticky \/ sh.rem % half # 0
             up   == sh.rem >= half /\ (more \/ sh.q[3] % 2 = 1)
             inc  == IncLimbs(sh.q)
         IN  IF ~up THEN [m |-> sh.q, e |-> e]
             ELSE IF inc[1] < 2 * TopOne THEN [m |-> inc, e |-> e]
             ELSE [m |-> <<TopOne, 0, 0>>, e |-> e + 1]

\* Scale r up until d <= r < 2d, counting the binary exponent down.
RECURSIVE NormShift(_, _, _)
NormShift(r, d, e) ==
    IF r >= d THEN [r |-> r, e |-> e] ELSE NormShift(2 * r, d, e - 1)

\* float(v) / float(d) for integers 0 < v <= d < 2^8 (both exact as doubles):
\* MantBits + 1 quotient bits by long division, limb by limb, then rounding.
FDiv(v, d) ==
    LET s  == NormShift(v, d, 0)
        n1 == s.r * (2 * TopOne)
        n2 == (n1 % d) * Limb
        n3 == (n2 % d) * Limb
    IN  RoundNearestEven(<<n1 \div d, n2 \div d, n3 \div d>>, 1, s.e, n3 % d # 0)

\* f * float(k) for an integer 0 < k < 2^4: the exact product, then rounding.
FMulInt(f, k) ==
    LET p3 == f.m[3] * k
        p2 == f.m[2] * k + p3 \div Limb
        p1 == f.m[1] * k + p2 \div Limb
        nb == CHOOSE n \in 0..4 : p1 \div 2^n \in TopOne..(2 * TopOne - 1)
    IN  RoundNearestEven(<<p1, p2 % Limb, p3 % Limb>>, nb, f.e + nb, FALSE)

\* int(f): truncation toward zero of a positive float below 2^16.
FTrunc(f) ==
    IF f.e < 0 THEN 0 ELSE f.m[1] \div (TopOne \div 2^f.e)

(***************************************************************************)
(* to_4bit: int((value / 255) * 15) * 17.                                  *)
(***************************************************************************)
\* A slip that scales to 0..16 instead of 0..15.
to_4bit_scale16(value) ==
    IF value = 0 THEN 0
    ELSE FTrunc(FMulInt(FDiv(value, MaxChannel), MaxNibble + 1)) * LevelStep

\* A slip that scales back by 16 (a shift) instead of 17.
to_4bit_shift(value) ==
    IF value = 0 THEN 0
    ELSE FTrunc(FMulInt(FDiv(value, MaxChannel), MaxNibble)) * (LevelStep - 1)

to_4bit(value) ==
    IF value = 0 THEN 0
    ELSE FTrunc(FMulInt(FDiv(value, MaxChannel), MaxNibble)) * LevelStep

\* The 16 levels of a 4-bit channel, spread over 0..255.
Levels == {LevelStep * k : k \in 0..MaxNibble}

(***************************************************************************)
(* Raster images as Pillow presents them: a mode, a size and a pixel       *)
(* access object indexed by (x, y).  An RGB pixel is <<r, g, b>>, a        *)
(* greyscale ("L") pixel is <<l>>.                                         *)
(***************************************************************************)
RGBSamples == {<<16, 100, 255>>, <<17, 254, 0>>}
GreySamples == {<<16>>, <<200>>}

Coords(w, h) == (0..(w - 1)) \X (0..(h - 1))

Images ==
    [mode : {"RGB"}, w : {Width}, h : {Height}, px : [Coords(Width, Height) -> RGBSamples]]
    \cup
    [mode : {"L"}, w : {Width}, h : {Height}, px : [Coords(Width, Height) -> GreySamples]]

NoImage == [mode |-> "none", w |-> 0, h |-> 0, px |-> <<>>]

\* img.convert('RGB') of a greyscale image: the level in all three channels.
ConvertRGB(img) ==
    [img EXCEPT !.mode = "RGB",
                !.px = [c \in DOMAIN img.px |-> <<img.px[c][1], img.px[c][1], img.px[c][1]>>]]

\* pixels[x, y] = (to_4bit(r), to_4bit(g), to_4bit(b))
ReducePixel(p) == <<to_4bit(p[1]), to_4bit(p[2]), to_4bit(p[3])>>

\* A slip in the inner loop: range(img.width - 1) leaves the last column.
RECURSIVE ReduceRowShort(_, _, _, _)
ReduceRowShort(px, x, y, w) ==
    IF x >= w - 1 THEN px
    ELSE ReduceRowShort([px EXCEPT ![<<x, y>>] = ReducePixel(@)], x + 1, y, w)

\* for x in range(img.width): ...
RECURSIVE ReduceRow(_, _, _, _)
ReduceRow(px, x, y, w) ==
    IF x >= w THEN px
    ELSE ReduceRow([px EXCEPT ![<<x, y>>] = ReducePixel(@)], x + 1, y, w)

\* for y in range(img.height): ...
RECURSIVE ReduceRows(_, _, _, _)
ReduceRows(px, y, w, h) ==
    IF y >= h THEN px
    ELSE ReduceRows(ReduceRow(px, 0, y, w), y + 1, w, h)

reduce_to_4bit_color(img) ==
    LET rgb == IF img.mode # "RGB" THEN ConvertRGB(img) ELSE img
    IN  [rgb EXCEPT !.px = ReduceRows(rgb.px, 0, rgb.w, rgb.h)]

\* Every channel of every pixel is one of the 16 levels.
AllLevels(img) ==
    \A c \in DOMAIN img.px : \A i \in DOMAIN img.px[c] : img.px[c][i] \in Levels

(***************************************************************************)
(* The colour-count parse.  The diagnostic text is a sequence of symbols;  *)
(* the symbol "colors found" stands for that literal substring.            *)
(***************************************************************************)
Marker == "colors found"
Digits == {"1", "2", "8"}
Alphabet == Digits \cup {"-", " ", Marker}

RECURSIVE SeqsUpTo(_, _)
SeqsUpTo(S, n) ==
    IF n = 0 THEN {<<>>}
    ELSE LET shorter == SeqsUpTo(S, n - 1)
         IN  shorter \cup {Append(t, a) : t \in {u \in shorter : Len(u) = n - 1}, a \in S}

Texts == SeqsUpTo(Alphabet, MaxLen)

\* "colors found" in text
HasMarker(text) == \E i \in DOMAIN text : text[i] = Marker

\* text.split("colors found")[0]
BeforeMarker(text) ==
    LET first == CHOOSE i \in DOMAIN text :
                     text[i] = Marker /\ \A j \in 1..(i - 1) : text[j] # Marker
    IN  SubSeq(text, 1, first - 1)

\* s.split()[-1]: the last run of non-blank symbols, <<>> when there is none
\* (where Python raises IndexError).
LastToken(s) ==
    LET nonblank == {i \in DOMAIN s : s[i] # " "}
    IN  IF nonblank = {} THEN <<>>
        ELSE LET last  == CHOOSE i \in nonblank : \A j \in nonblank : j <= i
                 start == CHOOSE i \in 1..last :
                              /\ \A j \in i..last : s[j] # " "
                              /\ (i = 1 \/ s[i - 1] = " ")
             IN  SubSeq(s, start, last)

\* Whether int(tok) succeeds: an optional sign, then one or more digits.
IsIntLiteral(tok) ==
    LET body == IF tok # <<>> /\ tok[1] = "-" THEN Tail(tok) ELSE tok
    IN  body # <<>> /\ \A i \in DOMAIN body : body[i] \in Digits

DigitValue(d) == CASE d = "1" -> 1 [] d = "2" -> 2 [] d = "8" -> 8

RECURSIVE Decimal(_)
Decimal(ds) ==
    IF ds = <<>> THEN 0
    ELSE 10 * Decimal(SubSeq(ds, 1, Len(ds) - 1)) + DigitValue(ds[Len(ds)])

\* int(tok) for a valid literal.
IntOf(tok) == IF tok[1] = "-" THEN 0 - Decimal(Tail(tok)) ELSE Decimal(tok)

\* The outcome of lines 92-93: color_count, or the exception raised.
ParseColorCount(text) ==
    LET tok == LastToken(BeforeMarker(text))
    IN  IF tok = <<>> THEN [exc |-> "IndexError", count |-> 0]
        ELSE IF ~IsIntLiteral(tok) THEN [exc |-> "ValueError", count |-> 0]
        ELSE [exc |-> "none", count |-> IntOf(tok)]

(***************************************************************************)
(* The answer to "Do you want to run the script again? (Y/N): ".           *)
(***************************************************************************)
Answers == SeqsUpTo({"y", "Y", "n", " "}, MaxAnswer)

\* str.strip()
Strip(s) ==
    LET nonblank == {i \in DOMAIN s : s[i] # " "}
    IN  IF nonblank = {} THEN <<>>
        ELSE SubSeq(s, CHOOSE i \in nonblank : \A j \in nonblank : i <= j,
                       CHOOSE i \in nonblank : \A j \in nonblank : j <= i)

\* str.lower()
Lower(s) == [i \in DOMAIN s |-> IF s[i] = "Y" THEN "y" ELSE s[i]]


(***************************************************************************)
(* State.                                                                  *)
(***************************************************************************)
VARIABLES
    variant,    \* 2: IC65_128_2.py, 3: IC65_128_3.py (with the BASIC loader)
    pc,         \* the next external interaction of the script
    stderr,     \* result.stderr of the first ppmtoilbm (a local of the run)
    ppmBy,      \* who last wrote <base>.ppm in this run: none, convert, save
    opened,     \* inside the with block: the image as Image.open read it
    saved,      \* inside the with block: img as img.save wrote it to <base>.ppm
    iffBy,      \* who last wrote <base>.iff in this run
    calls,      \* the external tools run in this run, in order
    msgs,       \* the messages printed in this run, in order
    retry,      \* the stripped, lower-cased answer to the last prompt
    exc,        \* the exception that ended the program, if any
    kind,       \* which function the function-level specification applies
    chanIn,     \* function level: two channel values
    imgIn,      \* function level: an image
    results     \* function level: the results so far

vars == <<variant, pc, stderr, ppmBy, opened, saved, iffBy, calls, msgs,
          retry, exc, kind, chanIn, imgIn, results>>

runVars == <<stderr, ppmBy, opened, saved, iffBy, calls, msgs>>
fnVars == <<kind, chanIn, imgIn, results>>

ExitCodes == {0, 1}

Call(tool, rc, input) == [tool |-> tool, rc |-> rc, input |-> input]

\* The positions inside run_conversion.
RunPcs == {"convert", "ppmtoilbm1", "reduce", "ppmtoilbm2", "cc1541",
           "petcat", "cc1541_prg"}

Init ==
    /\ variant \in {2, 3}
    /\ pc = "convert"
    /\ stderr = <<>>
    /\ ppmBy = "none"
    /\ opened = NoImage
    /\ saved = NoImage
    /\ iffBy = "none"
    /\ calls = <<>>
    /\ msgs = <<>>
    /\ retry = <<>>
    /\ exc = "none"
    /\ kind = "none"
    /\ chanIn = <<0, 0>>
    /\ imgIn = NoImage
    /\ results = <<>>

(***************************************************************************)
(* run_conversion, one action per external tool, each with the code up to  *)
(* the next tool (or the return).  The locals stderr and img are gone      *)
(* once run_conversion has returned (pc = "prompt").                       *)
(***************************************************************************)

\* Step 1: convert, then the check that <base>.ppm exists.
Convert ==
    /\ pc = "convert"
    /\ \E rc \in ExitCodes, exists \in BOOLEAN :
        /\ calls' = Append(calls, Call("convert", rc, "input"))
        /\ IF rc # 0
           THEN /\ msgs' = msgs \o <<"Running ImageMagick", "Error during ImageMagick conversion">>
                /\ ppmBy' = "none"
                /\ pc' = "prompt"
           ELSE IF ~exists
           THEN /\ msgs' = msgs \o <<"Running ImageMagick", "Conversion to PPM completed",
                                      "Error: PPM file was not created">>
                /\ ppmBy' = "none"
                /\ pc' = "prompt"
           ELSE /\ msgs' = msgs \o <<"Running ImageMagick", "Conversion to PPM completed">>
                /\ ppmBy' = "convert"
                /\ pc' = "ppmtoilbm1"
    /\ UNCHANGED <<variant, stderr, opened, saved, iffBy, retry, exc>>
    /\ UNCHANGED fnVars

\* if color_count > 128: a slip in the threshold test.
NeedsReductionStrict(count) == count > ColorThreshold

\* if color_count >= 128
NeedsReduction(count) == count >= ColorThreshold

\* Step 2: the first ppmtoilbm (shell, stderr captured, no check=True), the
\* colour-count analysis and the choice of the branch.
Ppmtoilbm1 ==
    /\ pc = "ppmtoilbm1"
    /\ \E rc \in ExitCodes, text \in Texts :
        /\ calls' = Append(calls, Call("ppmtoilbm", rc, ppmBy))
        /\ iffBy' = "ppmtoilbm1"
        /\ IF rc # 0
           THEN /\ msgs' = msgs \o <<"Converting PPM to IFF", "Error during PPM to IFF conversion">>
                /\ pc' = "prompt"
                /\ exc' = exc
           ELSE IF ~HasMarker(text)
           THEN /\ msgs' = msgs \o <<"Converting PPM to IFF", "Conversion to IFF completed">>
                /\ pc' = "cc1541"
                /\ exc' = exc
           ELSE LET parsed == ParseColorCount(text) IN
                IF parsed.exc # "none"
                THEN \* int() or [-1] raised; except CalledProcessError lets it pass
                     /\ msgs' = msgs \o <<"Converting PPM to IFF", "Conversion to IFF completed">>
                     /\ pc' = "crashed"
                     /\ exc' = parsed.exc
                ELSE IF NeedsReduction(parsed.count)
                THEN /\ msgs' = msgs \o <<"Converting PPM to IFF", "Conversion to IFF completed",
                                           "ppmtoilbm detected colors", "Proceeding with 4-bit reduction">>
                     /\ pc' = "reduce"
                     /\ exc' = exc
                ELSE /\ msgs' = msgs \o <<"Converting PPM to IFF", "Conversion to IFF completed",
                                           "ppmtoilbm detected colors", "No further reduction needed">>
                     /\ pc' = "cc1541"
                     /\ exc' = exc
        /\ stderr' = IF pc' = "prompt" THEN <<>> ELSE text
    /\ UNCHANGED <<variant, ppmBy, opened, saved, retry>>
    /\ UNCHANGED fnVars

\* Step 3: Image.open, reduce_to_4bit_color, img.save over <base>.ppm.
Reduce ==
    /\ pc = "reduce"
    /\ \E img \in Images :
        /\ opened' = img
        /\ saved' = reduce_to_4bit_color(img)
        /\ ppmBy' = "save"
    /\ msgs' = Append(msgs, "Color values reduced to 4 bits")
    /\ pc' = "ppmtoilbm2"
    /\ UNCHANGED <<variant, stderr, iffBy, calls, retry, exc>>
    /\ UNCHANGED fnVars

\* The second ppmtoilbm (check=True; CalledProcessError is caught, line 133).
Ppmtoilbm2 ==
    /\ pc = "ppmtoilbm2"
    /\ \E rc \in ExitCodes :
        /\ calls' = Append(calls, Call("ppmtoilbm", rc, ppmBy))
        /\ iffBy' = "ppmtoilbm2"
        /\ IF rc # 0
           THEN /\ msgs' = Append(msgs, "Error during PPM to IFF conversion")
                /\ pc' = "prompt"
           ELSE /\ msgs' = Append(msgs, "Final conversion to IFF completed")
                /\ pc' = "cc1541"
    \* the with block ends here, normally or by the exception
    /\ opened' = NoImage
    /\ saved' = NoImage
    /\ stderr' = IF pc' = "prompt" THEN <<>> ELSE stderr
    /\ UNCHANGED <<variant, ppmBy, retry, exc>>
    /\ UNCHANGED fnVars


\* The check that <base>.iff exists, the disk-name prompt, step 3 (cc1541
\* adds the IFF to the D81), the check that the D81 exists and, in
\* IC65_128_3.py, the writing of the loader's .bas file.
Cc1541 ==
    /\ pc = "cc1541"
    /\ \E iffExists \in BOOLEAN, rc \in ExitCodes, d81Exists \in BOOLEAN :
        IF ~iffExists
        THEN /\ msgs' = Append(msgs, "Error: IFF file was not created")
             /\ calls' = calls
             /\ pc' = "prompt"
        ELSE /\ calls' = Append(calls, Call("cc1541", rc, iffBy))
             /\ IF rc # 0
                THEN /\ msgs' = msgs \o <<"Creating D81 disk image", "Error during D81 disk creation">>
                     /\ pc' = "prompt"
                ELSE LET checked == msgs \o <<"Creating D81 disk image",
                                              "D81 disk image created successfully with IFF added",
                                              IF d81Exists
                                              THEN "D81 disk image created successfully"
                                              ELSE "Error: D81 disk image was not created">>
                     IN  IF variant = 2
                         THEN /\ msgs' = checked
                              /\ pc' = "prompt"
                         ELSE \* no return after the check: step 4 follows
                              /\ msgs' = checked \o <<"Generating the BASIC loader BAS file",
                                                      "Loader BAS file created">>
                              /\ pc' = "petcat"
    /\ stderr' = IF pc' = "prompt" THEN <<>> ELSE stderr
    /\ UNCHANGED <<variant, ppmBy, opened, saved, iffBy, retry, exc>>
    /\ UNCHANGED fnVars

\* A slip that goes on to add the PRG although petcat failed.
PetcatUnchecked ==
    /\ pc = "petcat"
    /\ \E rc \in ExitCodes :
        /\ calls' = Append(calls, Call("petcat", rc, "bas"))
        /\ msgs' = Append(msgs, "Loader PRG file created")
        /\ pc' = "cc1541_prg"
    /\ stderr' = IF pc' = "prompt" THEN <<>> ELSE stderr
    /\ UNCHANGED <<variant, ppmBy, opened, saved, iffBy, retry, exc>>
    /\ UNCHANGED fnVars

\* Step 4 (IC65_128_3.py): petcat tokenizes the loader (check=True; the
\* CalledProcessError is caught at line 211).
Petcat ==
    /\ pc = "petcat"
    /\ \E rc \in ExitCodes :
        /\ calls' = Append(calls, Call("petcat", rc, "bas"))
        /\ IF rc # 0
           THEN /\ msgs' = Append(msgs, "Error adding loader PRG to D81 disk image")
                /\ pc' = "prompt"
           ELSE /\ msgs' = Append(msgs, "Loader PRG file created")
                /\ pc' = "cc1541_prg"
    /\ stderr' = IF pc' = "prompt" THEN <<>> ELSE stderr
    /\ UNCHANGED <<variant, ppmBy, opened, saved, iffBy, retry, exc>>
    /\ UNCHANGED fnVars

\* A slip that runs the last cc1541 without check=True.
Cc1541PrgUnchecked ==
    /\ pc = "cc1541_prg"
    /\ \E rc \in ExitCodes :
        /\ calls' = Append(calls, Call("cc1541", rc, "prg"))
        /\ msgs' = Append(msgs, "Loader PRG added to D81 disk image")
        /\ pc' = "prompt"
    /\ stderr' = IF pc' = "prompt" THEN <<>> ELSE stderr
    /\ UNCHANGED <<variant, ppmBy, opened, saved, iffBy, retry, exc>>
    /\ UNCHANGED fnVars

\* Step 4, continued: cc1541 adds the loader PRG to the D81.
Cc1541Prg ==
    /\ pc = "cc1541_prg"
    /\ \E rc \in ExitCodes :
        /\ calls' = Append(calls, Call("cc1541", rc, "prg"))
        /\ IF rc # 0
           THEN msgs' = Append(msgs, "Error adding loader PRG to D81 disk image")
           ELSE msgs' = Append(msgs, "Loader PRG added to D81 disk image")
        /\ pc' = "prompt"
    /\ stderr' = IF pc' = "prompt" THEN <<>> ELSE stderr
    /\ UNCHANGED <<variant, ppmBy, opened, saved, iffBy, retry, exc>>
    /\ UNCHANGED fnVars

(***************************************************************************)
(* The main loop: after run_conversion returns, ask whether to run again.  *)
(***************************************************************************)
\* if retry != 'y': break
Affirmative(answer) == answer = <<"y">>

\* What the run printed and ran is kept until the answer is read; the next
\* run (or the exit) starts afresh.
Prompt ==
    /\ pc = "prompt"
    /\ \E answer \in Answers :
        /\ retry' = Lower(Strip(answer))
        /\ pc' = IF Affirmative(retry') THEN "convert" ELSE "exited"
    /\ stderr' = <<>>
    /\ ppmBy' = "none"
    /\ opened' = NoImage
    /\ saved' = NoImage
    /\ iffBy' = "none"
    /\ calls' = <<>>
    /\ msgs' = <<>>
    /\ UNCHANGED <<variant, exc>>
    /\ UNCHANGED fnVars

Next ==
    \/ Convert
    \/ Ppmtoilbm1
    \/ Reduce
    \/ Ppmtoilbm2
    \/ Cc1541
    \/ Petcat
    \/ Cc1541Prg
    \/ Prompt

Spec == Init /\ [][Next]_vars

(***************************************************************************)
(* The function-level specification: to_4bit applied to every pair of      *)
(* channel values, and reduce_to_4bit_color applied to every image, once   *)
(* and then again to the result.                                           *)
(***************************************************************************)
Channels == 0..MaxChannel

FnInit ==
    /\ kind \in {"channel", "image"}
    /\ IF kind = "channel"
       THEN chanIn \in Channels \X Channels /\ imgIn = NoImage
       ELSE chanIn = <<0, 0>> /\ imgIn \in Images
    /\ results = <<>>
    /\ variant = 2
    /\ pc = "function"
    /\ stderr = <<>>
    /\ ppmBy = "none"
    /\ opened = NoImage
    /\ saved = NoImage
    /\ iffBy = "none"
    /\ calls = <<>>
    /\ msgs = <<>>
    /\ retry = <<>>
    /\ exc = "none"

ApplyTo4bit ==
    /\ kind = "channel"
    /\ results = <<>>
    /\ results' = << <<to_4bit(chanIn[1]), to_4bit(chanIn[2])>> >>
    /\ UNCHANGED <<kind, chanIn, imgIn, variant, pc, retry, exc>>
    /\ UNCHANGED runVars

ApplyTo4bitAgain ==
    /\ kind = "channel"
    /\ Len(results) = 1
    /\ results' = Append(results, <<to_4bit(results[1][1]), to_4bit(results[1][2])>>)
    /\ UNCHANGED <<kind, chanIn, imgIn, variant, pc, retry, exc>>
    /\ UNCHANGED runVars

ApplyReduce ==
    /\ kind = "image"
    /\ results = <<>>
    /\ results' = <<reduce_to_4bit_color(imgIn)>>
    /\ UNCHANGED <<kind, chanIn, imgIn, variant, pc, retry, exc>>
    /\ UNCHANGED runVars

ApplyReduceAgain ==
    /\ kind = "image"
    /\ Len(results) = 1
    /\ results' = Append(results, reduce_to_4bit_color(results[1]))
    /\ UNCHANGED <<kind, chanIn, imgIn, variant, pc, retry, exc>>
    /\ UNCHANGED runVars

FnNext ==
    \/ ApplyTo4bit
    \/ ApplyTo4bitAgain
    \/ ApplyReduce
    \/ ApplyReduceAgain

FnSpec == FnInit /\ [][FnNext]_vars


(***************************************************************************)
(* Properties.                                                             *)
(***************************************************************************)
Last(q) == q[Len(q)]
Said(m) == \E i \in DOMAIN msgs : msgs[i] = m
Ran(tool) == {i \in DOMAIN calls : calls[i].tool = tool}
Abs(n) == IF n < 0 THEN 0 - n ELSE n

\* The set of values to_4bit takes on 0..255.
ProducedLevels == {to_4bit(v) : v \in Channels}

\* C1: for every channel value v in 0..255, to_4bit(v) is one of the 16
\* levels 0, 17, ..., 255; every one of the 16 levels is the image of some v;
\* and v1 <= v2 implies to_4bit(v1) <= to_4bit(v2).
C1_LevelsOntoMonotone ==
    (kind = "channel" /\ Len(results) >= 1) =>
        /\ results[1][1] \in Levels
        /\ results[1][2] \in Levels
        /\ chanIn[1] <= chanIn[2] => results[1][1] <= results[1][2]
        /\ ProducedLevels = Levels

C1_Witness ==
    /\ kind = "channel"
    /\ chanIn = <<16, 17>>
    /\ results = << <<0, 17>> >>

\* C2: depth reduction is idempotent: to_4bit(to_4bit(v)) = to_4bit(v) for
\* every channel value, and reduce_to_4bit_color applied twice to an image
\* gives the image it gives applied once.
C2_Idempotent ==
    Len(results) = 2 => results[2] = results[1]

C2_Witness ==
    /\ kind = "channel"
    /\ chanIn = <<200, 16>>
    /\ results = << <<187, 0>>, <<187, 0>> >>

\* C10 (as claimed): to_4bit returns the level nearest to v: the result
\* minimizes |v - 17 * j| over j in 0..15.
C10_NearestLevel ==
    (kind = "channel" /\ Len(results) >= 1) =>
        \A j \in 0..MaxNibble :
            Abs(chanIn[1] - results[1][1]) <= Abs(chanIn[1] - LevelStep * j)

FailureMessages ==
    {"Error during ImageMagick conversion", "Error during PPM to IFF conversion",
     "Error during D81 disk creation", "Error adding loader PRG to D81 disk image"}

\* C3: a nonzero exit status of any external tool aborts the run: a failure
\* is reported, no later tool is run, and control is back at the session loop.
C3_NonzeroExitAborts ==
    \A i \in DOMAIN calls :
        calls[i].rc # 0 =>
            /\ i = Len(calls)
            /\ pc = "prompt"
            /\ msgs # <<>> /\ Last(msgs) \in FailureMessages

C3_Witness ==
    /\ pc = "prompt"
    /\ Len(calls) = 5
    /\ calls[4] = Call("cc1541", 0, "ppmtoilbm2")
    /\ calls[5] = Call("petcat", 1, "bas")

\* C4 (as claimed): every failure inside a run is local to the run:
\* run_conversion returns to the main loop and no failure ends the program.
C4_FailuresLocal ==
    pc # "crashed" /\ exc = "none"

\* The text carries the marker and an integer of at least 128 before it.
CountAtLeastThreshold(text) ==
    /\ HasMarker(text)
    /\ ParseColorCount(text).exc = "none"
    /\ ParseColorCount(text).count >= ColorThreshold

\* C5: after a first ppmtoilbm that exited 0, the reduction is applied (the
\* PPM overwritten, ppmtoilbm run a second time) if and only if the captured
\* text has the marker with an integer >= 128 before it; with no marker or a
\* smaller count no error is raised, the PPM is as convert left it,
\* ppmtoilbm has run once and the IFF given to cc1541 is its output.
C5_ReductionIffThreshold ==
    /\ pc \in {"reduce", "ppmtoilbm2"} => CountAtLeastThreshold(stderr)
    /\ pc = "crashed" => HasMarker(stderr) /\ ParseColorCount(stderr).exc # "none"
    /\ pc \in {"cc1541", "petcat", "cc1541_prg"} =>
         /\ exc = "none"
         /\ IF CountAtLeastThreshold(stderr)
            THEN /\ ppmBy = "save"
                 /\ Cardinality(Ran("ppmtoilbm")) = 2
                 /\ iffBy = "ppmtoilbm2"
            ELSE /\ ppmBy = "convert"
                 /\ Cardinality(Ran("ppmtoilbm")) = 1
                 /\ iffBy = "ppmtoilbm1"
         /\ \A i \in Ran("cc1541") : calls[i].input \in {iffBy, "prg"}

C5_Witness ==
    /\ pc = "cc1541"
    /\ stderr = <<"1", "2", "8", Marker>>
    /\ ppmBy = "save"
    /\ Len(calls) = 3

D81SuccessMessages ==
    {"D81 disk image created successfully with IFF added",
     "D81 disk image created successfully"}

\* C6 (as claimed): in a run in which a cc1541 invocation exits nonzero, no
\* message says the D81 was created successfully, and a failure is reported.
C6_NoSuccessAfterCc1541Failure ==
    \A i \in Ran("cc1541") :
        calls[i].rc # 0 =>
            /\ \A m \in D81SuccessMessages : ~Said(m)
            /\ \E m \in FailureMessages : Said(m)

\* C6 (amended): in a run in which a cc1541 invocation exits nonzero, the
\* last message of the run reports the failure and none says that what that
\* invocation was adding was added; when the failing invocation is the one
\* that adds the IFF, no message says the D81 was created successfully.
C6_FailureReported ==
    \A i \in Ran("cc1541") :
        calls[i].rc # 0 =>
            /\ msgs # <<>> /\ Last(msgs) \in FailureMessages
            /\ ~Said("Loader PRG added to D81 disk image")
            /\ calls[i].input # "prg" => \A m \in D81SuccessMessages : ~Said(m)

C6_Witness ==
    /\ variant = 3
    /\ pc = "prompt"
    /\ Len(calls) = 5
    /\ calls[5] = Call("cc1541", 1, "prg")
    /\ Said("D81 disk image created successfully")

MissingFileMessages ==
    {"Error: PPM file was not created", "Error: IFF file was not created",
     "Error: D81 disk image was not created"}

\* C7 (as claimed): when an existence check finds the expected output file
\* missing, the run reports it and aborts: nothing of the pipeline follows.
C7_MissingFileAborts ==
    \A i \in DOMAIN msgs :
        msgs[i] \in MissingFileMessages =>
            /\ i = Len(msgs)
            /\ pc = "prompt"
            /\ Ran("petcat") = {}

\* C8 (as claimed): every run, successful or aborted, ends at the "run
\* again" prompt; an affirmative answer starts a new run, any other answer
\* ends the program, which ends in no other way and starts no run afterwards.
C8_SessionLoop ==
    [][/\ (pc \in RunPcs /\ pc' \notin RunPcs) => pc' = "prompt"
       /\ pc = "prompt" => \/ (Affirmative(retry') /\ pc' = "convert")
                             \/ (~Affirmative(retry') /\ pc' = "exited")
       /\ pc = "exited" => pc' = "exited"]_vars

\* C9: when the reduction is applied, the second ppmtoilbm starts only after
\* every pixel has been transformed and the image saved over the PPM, so
\* every channel of the saved PPM is one of the 16 levels when it runs; and
\* cc1541 is run only after that second conversion has completed.
C9_SavedBeforeSecondConversion ==
    /\ pc = "ppmtoilbm2" =>
         /\ ppmBy = "save"
         /\ DOMAIN saved.px = Coords(opened.w, opened.h)
         /\ AllLevels(saved)
    /\ \A i \in Ran("ppmtoilbm") : i > 2 => calls[i].input = "save"
    /\ ppmBy = "save" =>
         \A i \in Ran("cc1541") :
             \E j \in 1..(i - 1) : calls[j] = Call("ppmtoilbm", 0, "save")
    /\ (ppmBy = "save" /\ pc = "cc1541") => Last(calls) = Call("ppmtoilbm", 0, "save")

C9_Witness ==
    /\ pc = "ppmtoilbm2"
    /\ opened.mode = "RGB"
    /\ ~AllLevels(opened)
    /\ AllLevels(saved)
    /\ ppmBy = "save"


=============================================================================
